---- MODULE Spec2Model ----
(***************************************************************************)
(* Model of the NotebookLM browser-automation scripts:                     *)
(*   scripts/audio_generator.py, scripts/source_manager.py,                *)
(*   scripts/add_source.py, scripts/notebook_creator.py,                   *)
(*   scripts/browser_utils.py, scripts/config.py.                          *)
(*                                                                         *)
(* One invocation of one operation is a sequential program; pc is its      *)
(* position.  The browser, the page and the clock are the environment:     *)
(* every call into them picks its outcome nondeterministically.  Time is   *)
(* counted in whole seconds.                                               *)
(***************************************************************************)
EXTENDS Integers, Sequences, FiniteSets, TLC

VARIABLES
    op,               \* which entry point runs
    args,             \* its arguments
    authed,           \* what AuthManager.is_authenticated() answers
    pc,               \* position in the operation
    result,           \* the value the operation returned ("unset" before)
    playwright,       \* local variable playwright: "None" or "driver"
    context,          \* local variable context: "None" or "ctx"
    driverState,      \* the driver process: "none", "running", "stopped", "stop_failed"
    ctxState,         \* the browser context: "none", "live", "closed", "close_failed"
    cookiesInjected,  \* context.add_cookies was applied to the context
    pageUrl,          \* kind of page.url after navigation
    trace,            \* milestones of the run, in order
    fSelectors,       \* find: the selector list being resolved
    fTimeout,         \* find: the timeout argument (ms)
    fIdx,             \* find: index of the candidate the loop is at
    fElapsed,         \* find: seconds spent waiting so far
    fQueried,         \* find: selectors handed to wait_for_selector, in order
    fFirstMatch,      \* find: index of the first candidate whose wait succeeded (0: none)
    fStarved,         \* find: a candidate visible within its own timeout was not matched
    fRaised,          \* find: some candidate's wait raised an error other than a timeout
    fRet,             \* find: where the caller continues
    found,            \* find: the returned pair <<element, selector>>
    clock,            \* seconds since generation_start
    generating,       \* poll loop: local variable generating
    still_generating, \* poll loop: local variable still_generating
    pollExit,         \* how the poll loop ended: "none", "complete", "timeout"
    seen1,            \* whether the page showed the indicator at this iteration's check
    seen2,            \* the same at this iteration's re-check ("none" before it)
    raised1,          \* every indicator query of this iteration's check raised
    raised2,          \* the same at this iteration's re-check
    allVisible,       \* every check since submission showed the indicator
    stateFile,        \* state.json, the saved cookie snapshot
    profile,          \* which invocation's browser holds the profile directory (0: none)
    procs             \* two invocations on one profile: the state of each

ctl   == <<op, args, authed, stateFile, profile, procs>>
res   == <<playwright, context, driverState, ctxState, cookiesInjected>>
find  == <<fSelectors, fTimeout, fIdx, fElapsed, fQueried, fFirstMatch,
           fStarved, fRaised, fRet, found>>
poll  == <<clock, generating, still_generating, pollExit, seen1, seen2,
           raised1, raised2, allVisible>>
\* the variables of the single invocation
local == <<op, args, authed, pc, result, res, pageUrl, trace, find, poll>>
vars  == <<op, args, authed, pc, result, playwright, context, driverState,
           ctxState, cookiesInjected, pageUrl, trace, fSelectors, fTimeout,
           fIdx, fElapsed, fQueried, fFirstMatch, fStarved, fRaised, fRet,
           found, clock, generating, still_generating, pollExit, seen1, seen2,
           raised1, raised2,
           allVisible, stateFile, profile, procs>>

None == "None"

----------------------------------------------------------------------------
(* Bounds of the model *)

\* invocations that run against the one profile directory
NumProcs == 2

\* latest moment (s after a wait starts) at which the page may show an element
MaxAppear == 11
\* longest time (s) one round of indicator queries may take
MaxQuery == 1

----------------------------------------------------------------------------
(* config.py *)

AUDIO_GENERATION_TIMEOUT == 600000

AUDIO_OVERVIEW_CARD_SELECTORS ==
    << "div:has-text(\"Audio Overview\")", "[aria-label=\"Audio Overview\"]" >>

AUDIO_CUSTOMIZE_BUTTON_SELECTORS ==
    << "button[aria-label=\"Customize Audio Overview\"]",
       "div:has-text(\"Audio Overview\") button" >>

AUDIO_FORMAT_SELECTORS ==
    [ deep_dive |-> << "div:has-text(\"Deep Dive\")" >>,
      brief     |-> << "div:has-text(\"Brief\")" >>,
      critique  |-> << "div:has-text(\"Critique\")" >>,
      debate    |-> << "div:has-text(\"Debate\")" >> ]

AUDIO_LENGTH_SELECTORS ==
    [ short   |-> << "button:has-text(\"Short\")" >>,
      default |-> << "button:has-text(\"Default\")" >>,
      long    |-> << "button:has-text(\"Long\")" >> ]

AUDIO_INSTRUCTIONS_SELECTORS ==
    << "textarea[placeholder*=\"Things to try\"]",
       "textarea[placeholder*=\"focus\"]",
       "[aria-label=\"What should the AI hosts focus on\"]" >>

AUDIO_GENERATE_BUTTON_SELECTORS ==
    << "button:has-text(\"Generate\")", "[aria-label=\"Generate\"]" >>

----------------------------------------------------------------------------
(* Helpers of the control skeleton *)

Ev(e) == trace' = Append(trace, e)

\* the value an operation returns on failure
Failure(o) == IF o \in {"sm_add_url_source", "sm_add_text_source"} THEN "False" ELSE None

\* `return v` inside the try block: the finally clause runs next
Return(v) == /\ result' = v
             /\ pc' = "finally_context"

\* an exception inside the try block: `except Exception` returns the failure value
Throw == /\ result' = Failure(op)
         /\ pc' = "finally_context"

----------------------------------------------------------------------------
(* find_element_with_selectors *)

\* what the page does with one selector while the script waits on it
Behaviours ==
    [kind : {"appears"}, after : 0..MaxAppear]
    \cup [kind : {"never"}, after : {0}]
    \cup [kind : {"error"}, after : 0..MaxAppear]

\* page.wait_for_selector(selector, timeout=timeout, state="visible")
WaitForSelector(selector, beh, timeout) ==
    LET limit == timeout \div 1000 IN
    IF beh.kind = "appears" /\ beh.after <= limit
        THEN [kind |-> "element", element |-> selector, took |-> beh.after]
    ELSE IF beh.kind = "error" /\ beh.after <= limit
        THEN [kind |-> "Error", element |-> None, took |-> beh.after]
    ELSE [kind |-> "TimeoutError", element |-> None, took |-> limit]

\* a shared budget: the candidate only gets what earlier candidates left over
CandidateTimeout_shared(timeout, elapsed) ==
    IF timeout - elapsed * 1000 > 0 THEN timeout - elapsed * 1000 ELSE 0

\* the timeout handed to each candidate's wait (timeout=timeout)
CandidateTimeout(timeout, elapsed) == timeout

\* the loop forgets to return on a match
Matched_never(r) == FALSE

\* `if element:` after a wait that returned
Matched(r) == r.kind = "element" /\ r.element # None

\* a narrow except clause: only the timeout is absorbed
Absorbed_timeout_only(r) == r.kind = "TimeoutError"

\* `except: continue`
Absorbed(r) == r.kind \in {"TimeoutError", "Error"}

\* the call: for selector in selectors
CallFind(selectors, timeout, ret) ==
    /\ fSelectors' = selectors
    /\ fTimeout' = timeout
    /\ fIdx' = 1
    /\ fElapsed' = 0
    /\ fQueried' = << >>
    /\ fFirstMatch' = 0
    /\ fStarved' = FALSE
    /\ fRaised' = FALSE
    /\ fRet' = ret
    /\ found' = << "pending", "pending" >>
    /\ pc' = "find"

\* one iteration of the loop: wait on candidate fIdx
find_try ==
    /\ pc = "find"
    /\ fIdx <= Len(fSelectors)
    /\ \E beh \in Behaviours :
         LET selector == fSelectors[fIdx]
             r == WaitForSelector(selector, beh, CandidateTimeout(fTimeout, fElapsed))
         IN  /\ fQueried' = Append(fQueried, selector)
             /\ fElapsed' = fElapsed + r.took
             /\ fStarved' = (fStarved \/ (beh.kind = "appears"
                                          /\ beh.after <= fTimeout \div 1000
                                          /\ r.kind # "element"))
             /\ fRaised' = (fRaised \/ r.kind = "Error")
             /\ fFirstMatch' = IF fFirstMatch = 0 /\ r.kind = "element"
                                 THEN fIdx ELSE fFirstMatch
             /\ IF Matched(r)
                  THEN /\ found' = << r.element, selector >>
                       /\ pc' = fRet
                       /\ fIdx' = fIdx
                       /\ UNCHANGED result
                  ELSE IF r.kind = "element" \/ Absorbed(r)
                  THEN /\ fIdx' = fIdx + 1
                       /\ UNCHANGED <<found, pc, result>>
                  ELSE /\ Throw
                       /\ UNCHANGED <<found, fIdx>>
    /\ UNCHANGED <<ctl, res, pageUrl, trace, poll, fSelectors, fTimeout, fRet>>

\* the loop ran out of candidates: return None, None
find_exhausted ==
    /\ pc = "find"
    /\ fIdx > Len(fSelectors)
    /\ found' = << None, None >>
    /\ pc' = fRet
    /\ UNCHANGED <<ctl, res, pageUrl, trace, poll, result, fSelectors, fTimeout,
                   fIdx, fElapsed, fQueried, fFirstMatch, fStarved, fRaised, fRet>>

FindIdle == UNCHANGED find

----------------------------------------------------------------------------
(* BrowserFactory and the release in each operation's finally clause *)

StateFileKinds == {"missing", "unreadable", "no_cookies", "cookies"}

\* BrowserFactory._inject_cookies: whether add_cookies took effect
InjectCookies(snapshot, addOk) == snapshot = "cookies" /\ addOk

\* playwright = sync_playwright().start()
start_driver ==
    /\ pc = "start_driver"
    /\ \/ /\ playwright' = "driver"
          /\ driverState' = "running"
          /\ pc' = "launch"
          /\ Ev("start_driver")
          /\ UNCHANGED result
       \/ /\ Throw
          /\ UNCHANGED <<playwright, driverState, trace>>
    /\ UNCHANGED <<ctl, context, ctxState, cookiesInjected, pageUrl, find, poll>>

\* context = BrowserFactory.launch_persistent_context(playwright, headless=headless)
launch_persistent_context ==
    /\ pc = "launch"
    /\ \/ \E sf \in StateFileKinds, addOk \in BOOLEAN :
            /\ context' = "ctx"
            /\ ctxState' = "live"
            /\ cookiesInjected' = InjectCookies(sf, addOk)
            /\ pc' = "navigate"
            /\ Ev("launch")
            /\ UNCHANGED result
       \/ /\ Throw
          /\ UNCHANGED <<context, ctxState, cookiesInjected, trace>>
    /\ UNCHANGED <<ctl, playwright, driverState, pageUrl, find, poll>>

\* the context is released only after a success
ShouldClose_on_success_only == context # None /\ result \notin {None, "False"}

\* finally: if context:
ShouldClose == context # None

\* an error raised by close() leaves the finally clause
AfterClose_error_skips_stop(ok) == IF ok THEN "finally_driver" ELSE "returned"

\* try: context.close() except: pass; the next statement is `if playwright:`
AfterClose(ok) == "finally_driver"

\* finally: if context: try: context.close() except: pass
finally_context ==
    /\ pc = "finally_context"
    /\ IF ShouldClose
         THEN /\ \E ok \in BOOLEAN :
                   /\ ctxState' = IF ok THEN "closed" ELSE "close_failed"
                   /\ pc' = AfterClose(ok)
              /\ Ev("context_close")
         ELSE /\ pc' = "finally_driver"
              /\ UNCHANGED <<ctxState, trace>>
    /\ UNCHANGED <<ctl, result, playwright, context, driverState, cookiesInjected,
                   pageUrl, find, poll>>

\* the driver is left running
ShouldStop_never(pw) == FALSE

\* finally: if playwright:
ShouldStop(pw) == pw # None

\* finally: if playwright: try: playwright.stop() except: pass
finally_driver ==
    /\ pc = "finally_driver"
    /\ IF ShouldStop(playwright)
         THEN /\ \E ok \in BOOLEAN :
                   driverState' = IF ok THEN "stopped" ELSE "stop_failed"
              /\ Ev("driver_stop")
         ELSE UNCHANGED <<driverState, trace>>
    /\ pc' = "returned"
    /\ UNCHANGED <<ctl, result, playwright, context, ctxState, cookiesInjected,
                   pageUrl, find, poll>>

----------------------------------------------------------------------------
(* generate_audio *)

\* the find state is dead once the caller has read the returned pair
FindReset ==
    /\ fSelectors' = << >>
    /\ fTimeout' = 0
    /\ fIdx' = 0
    /\ fElapsed' = 0
    /\ fQueried' = << >>
    /\ fFirstMatch' = 0
    /\ fStarved' = FALSE
    /\ fRaised' = FALSE
    /\ fRet' = "none"
    /\ found' = << "unset", "unset" >>

\* the kinds of page a navigation can end on
UrlKinds == {"notebook", "notebooklm_other", "elsewhere"}

\* page.wait_for_url(re.compile(r"^https://notebooklm\.google\.com/"), ...)
OnNotebookLM(url) == url \in {"notebook", "notebooklm_other"}

\* page = context.new_page(); page.goto(url); page.wait_for_url(...)
Navigate(next) ==
    \/ /\ Throw                         \* new_page or goto raised
       /\ UNCHANGED <<pageUrl, trace>>
    \/ \E url \in UrlKinds :
         /\ pageUrl' = url
         /\ Ev("goto")
         /\ IF OnNotebookLM(url)
              THEN /\ pc' = next
                   /\ UNCHANGED result
              ELSE Throw                \* wait_for_url timed out

\* the check only warns, and the operation goes on
NotAuthenticated_goes_on ==
    /\ pc' = "start_driver"
    /\ UNCHANGED result

\* if not auth.is_authenticated(): return the failure value
NotAuthenticated ==
    /\ result' = Failure(op)
    /\ pc' = "returned"

\* auth = AuthManager(); if not auth.is_authenticated(): return None
ga_entry ==
    /\ op = "generate_audio"
    /\ pc = "entry"
    /\ IF ~authed
         THEN NotAuthenticated
         ELSE /\ pc' = "start_driver"
              /\ UNCHANGED result
    /\ UNCHANGED <<ctl, res, pageUrl, trace, find, poll>>

\* page = context.new_page(); page.goto(notebook_url); page.wait_for_url(...)
ga_navigate ==
    /\ op = "generate_audio"
    /\ pc = "navigate"
    /\ Navigate("ga_studio")
    /\ UNCHANGED <<ctl, res, find, poll>>

\* studio_tab = page.query_selector(...); if studio_tab: studio_tab.click()
\* then find_element_with_selectors(page, AUDIO_CUSTOMIZE_BUTTON_SELECTORS, 10000)
ga_studio ==
    /\ op = "generate_audio"
    /\ pc = "ga_studio"
    /\ \/ /\ Throw                      \* query_selector or click raised
          /\ UNCHANGED <<find, trace>>
       \/ /\ CallFind(AUDIO_CUSTOMIZE_BUTTON_SELECTORS, 10000, "ga_customize_done")
          /\ Ev("configure")
          /\ UNCHANGED result
    /\ UNCHANGED <<ctl, res, pageUrl, poll>>

\* if not customize_button: look for the card; else customize_button.click()
ga_customize_done ==
    /\ op = "generate_audio"
    /\ pc = "ga_customize_done"
    /\ IF found[1] = None
         THEN /\ CallFind(AUDIO_OVERVIEW_CARD_SELECTORS, 5000, "ga_card_done")
              /\ UNCHANGED result
         ELSE \/ /\ pc' = "ga_format"
                 /\ FindReset
                 /\ UNCHANGED result
              \/ /\ Throw               \* click raised
                 /\ FindReset
    /\ UNCHANGED <<ctl, res, pageUrl, trace, poll>>

\* if audio_card: click the pencil or the card; else: return None
ga_card_done ==
    /\ op = "generate_audio"
    /\ pc = "ga_card_done"
    /\ IF found[1] # None
         THEN /\ \/ /\ pc' = "ga_format"
                    /\ UNCHANGED result
                 \/ Throw               \* query_selector or click raised
              /\ UNCHANGED trace
         ELSE /\ Ev("not_found")
              /\ Return(None)
    /\ FindReset
    /\ UNCHANGED <<ctl, res, pageUrl, poll>>

\* if format and format in AUDIO_FORMAT_SELECTORS: resolve the format option
ga_format ==
    /\ op = "generate_audio"
    /\ pc = "ga_format"
    /\ IF args.format \in DOMAIN AUDIO_FORMAT_SELECTORS
         THEN CallFind(AUDIO_FORMAT_SELECTORS[args.format], 3000, "ga_format_done")
         ELSE /\ pc' = "ga_length"
              /\ FindIdle
    /\ UNCHANGED <<ctl, res, result, pageUrl, trace, poll>>

\* an option that cannot be resolved ends the run
AfterUnresolvedOption_aborts(next) == Return(None)

\* `if format_element:` (likewise length_element, instructions_input) is
\* false: nothing is done and the run goes on with the next step
AfterUnresolvedOption(next) ==
    /\ pc' = next
    /\ UNCHANGED result

\* if format_element: format_element.click()
ga_format_done ==
    /\ op = "generate_audio"
    /\ pc = "ga_format_done"
    /\ IF found[1] = None
         THEN /\ AfterUnresolvedOption("ga_length")
              /\ FindIdle
         ELSE /\ \/ /\ pc' = "ga_length"
                    /\ UNCHANGED result
                 \/ Throw               \* click raised
              /\ FindReset
    /\ UNCHANGED <<ctl, res, pageUrl, trace, poll>>

\* if length and length in AUDIO_LENGTH_SELECTORS: resolve the length option
ga_length ==
    /\ op = "generate_audio"
    /\ pc = "ga_length"
    /\ IF args.length \in DOMAIN AUDIO_LENGTH_SELECTORS
         THEN CallFind(AUDIO_LENGTH_SELECTORS[args.length], 3000, "ga_length_done")
         ELSE /\ pc' = "ga_instructions"
              /\ FindIdle
    /\ UNCHANGED <<ctl, res, result, pageUrl, trace, poll>>

\* if length_element: length_element.click()
ga_length_done ==
    /\ op = "generate_audio"
    /\ pc = "ga_length_done"
    /\ IF found[1] = None
         THEN /\ AfterUnresolvedOption("ga_instructions")
              /\ FindIdle
         ELSE /\ \/ /\ pc' = "ga_instructions"
                    /\ UNCHANGED result
                 \/ Throw               \* click raised
              /\ FindReset
    /\ UNCHANGED <<ctl, res, pageUrl, trace, poll>>

\* if instructions: resolve the instructions field
ga_instructions ==
    /\ op = "generate_audio"
    /\ pc = "ga_instructions"
    /\ IF args.instructions
         THEN CallFind(AUDIO_INSTRUCTIONS_SELECTORS, 3000, "ga_instructions_done")
         ELSE /\ pc' = "ga_generate"
              /\ FindIdle
    /\ UNCHANGED <<ctl, res, result, pageUrl, trace, poll>>

\* if instructions_input: click, fill(""), fill(instructions)
ga_instructions_done ==
    /\ op = "generate_audio"
    /\ pc = "ga_instructions_done"
    /\ IF found[1] = None
         THEN /\ AfterUnresolvedOption("ga_generate")
              /\ FindIdle
         ELSE /\ \/ /\ pc' = "ga_generate"
                    /\ UNCHANGED result
                 \/ Throw               \* click or fill raised
              /\ FindReset
    /\ UNCHANGED <<ctl, res, pageUrl, trace, poll>>

\* find_element_with_selectors(page, AUDIO_GENERATE_BUTTON_SELECTORS, 5000)
ga_generate ==
    /\ op = "generate_audio"
    /\ pc = "ga_generate"
    /\ CallFind(AUDIO_GENERATE_BUTTON_SELECTORS, 5000, "ga_generate_done")
    /\ UNCHANGED <<ctl, res, result, pageUrl, trace, poll>>

\* the query_selector fallback, the screenshot and return None when there is
\* no button, the wait for the enabled button, scroll_into_view_if_needed
ga_generate_done ==
    /\ op = "generate_audio"
    /\ pc = "ga_generate_done"
    /\ \/ /\ found[1] = None
          /\ trace' = trace \o << "not_found", "screenshot" >>         \* the fallback query found nothing
          /\ \/ Return(None)
             \/ Throw                   \* page.screenshot raised
       \/ /\ pc' = "ga_click"           \* a button from either lookup
          /\ UNCHANGED <<result, trace>>
       \/ /\ Throw                      \* fallback query or scroll raised
          /\ UNCHANGED trace
    /\ FindReset
    /\ UNCHANGED <<ctl, res, pageUrl, poll>>

\* a random delay between min_ms and max_ms, in whole seconds
RandomDelay(min_ms, max_ms) == (min_ms \div 1000)..(max_ms \div 1000)

\* how a click on a button can go: the direct click works, or it raises and
\* the script-level click works, or both raise
ClickOutcomes == {"ok", "js_ok", "js_failed"}

\* the script-level click is tried a second time when it raised
ClickAttempts_retry_twice(click, direct, failed, js) ==
    IF click = "ok" THEN << direct >>
    ELSE IF click = "js_ok" THEN << direct, failed, js >>
    ELSE << direct, failed, js, js >>

\* try: button.click(timeout=...) except: try: page.evaluate('(el) => el.click()', button)
\* the clicks attempted, in order
ClickAttempts(click, direct, failed, js) ==
    IF click = "ok" THEN << direct >> ELSE << direct, failed, js >>

\* the submission is followed by the audio menu lookup at once
AfterSubmit_skips_polling == "ga_poll_done"

\* generation_start = time.time(); print; the delay; while ...: the polling
\* loop follows the submission
AfterSubmit == "ga_poll_head"

\* generate_button.click(timeout=10000), the page.evaluate fallback,
\* generation_start = time.time() and the first delay
ga_click ==
    /\ op = "generate_audio"
    /\ pc = "ga_click"
    /\ \E click \in ClickOutcomes, d \in RandomDelay(3000, 5000) :
         LET clicks == ClickAttempts(click, "click_generate", "click_failed",
                                     "js_click_generate")
         IN
         IF click = "js_failed"
           THEN /\ trace' = trace \o clicks \o << "screenshot" >>
                /\ \/ Return(None)
                   \/ Throw             \* page.screenshot raised
                /\ UNCHANGED poll
           ELSE /\ trace' = trace \o clicks \o << "submitted" >>
                /\ clock' = d
                /\ allVisible' = TRUE
                /\ pc' = AfterSubmit
                /\ UNCHANGED <<result, generating, still_generating, pollExit,
                               seen1, seen2, raised1, raised2>>
    /\ UNCHANGED <<ctl, res, pageUrl, find>>

\* generation_timeout = AUDIO_GENERATION_TIMEOUT / 1000
generation_timeout == AUDIO_GENERATION_TIMEOUT \div 1000

generating_indicator_selectors ==
    << "div:has-text(\"Generating Audio Overview\")",
       ":text(\"Generating Audio Overview\")",
       ":text(\"Come back in a few minutes\")" >>

\* what one page.query_selector(selector) and is_visible() can give
\* ("absent": no element, or one whose is_visible() is false)
QueryOutcomes == {"visible", "absent", "error"}

Observations == [1..Len(generating_indicator_selectors) -> QueryOutcomes]

\* page.query_selector or is_visible raised for every selector
AllRaised(obs) == \A i \in DOMAIN obs : obs[i] = "error"

\* the page shows the indicator under at least one of the selectors
IndicatorVisible(obs) == \E i \in DOMAIN obs : obs[i] = "visible"

\* only the first selector is consulted
ScanIndicator_first_only(obs, i) == obs[1] = "visible"

\* a query that raised counts as the indicator being there
ScanIndicator_error_is_visible(obs, i) ==
    \E k \in DOMAIN obs : obs[k] \in {"visible", "error"}

\* for selector in generating_indicator_selectors: try ... except: continue
RECURSIVE ScanIndicator(_, _)
ScanIndicator(obs, i) ==
    IF i > Len(obs) THEN FALSE
    ELSE IF obs[i] = "visible" THEN TRUE
    ELSE ScanIndicator(obs, i + 1)

\* the budget is passed before the loop ends
WithinBudget_inclusive(elapsed) == elapsed <= generation_timeout

\* while time.time() - generation_start < generation_timeout
WithinBudget(elapsed) == elapsed < generation_timeout

YesNo(b) == IF b THEN "yes" ELSE "no"

\* the else clause only reports, and the run goes on to the download
TimeoutExit_falls_through ==
    /\ pc' = "ga_poll_done"
    /\ UNCHANGED result

\* the else clause of the while: print, return None
TimeoutExit == Return(None)

\* the loop test, and the else clause of the while
ga_poll_head ==
    /\ op = "generate_audio"
    /\ pc = "ga_poll_head"
    /\ IF WithinBudget(clock)
         THEN /\ pc' = "ga_check"
              /\ UNCHANGED <<result, trace, pollExit>>
         ELSE /\ pollExit' = "timeout"
              /\ Ev("poll_timeout")
              /\ TimeoutExit
    /\ UNCHANGED <<ctl, res, pageUrl, find, clock, generating, still_generating,
                   seen1, seen2, raised1, raised2, allVisible>>

\* a re-check is skipped: the first absence ends the loop
AfterAbsent_no_recheck == "ga_poll_done"

\* else: the indicator disappeared, verify after a delay
AfterAbsent == "ga_recheck"

\* the loop does not wait between two checks
AfterSleep_no_wait(now) == now

\* time.sleep(5) before the next iteration
AfterSleep(now) == now + 5

\* the first time a check finds the indicator is noted in the trace
Seen(g) ==
    IF g /\ \A i \in DOMAIN trace : trace[i] # "indicator_seen"
      THEN << "indicator_seen" >> ELSE << >>

\* the first check of an iteration; time.sleep(5); continue when generating
ga_check ==
    /\ op = "generate_audio"
    /\ pc = "ga_check"
    /\ \E obs \in Observations :
         LET g == ScanIndicator(obs, 1) IN
         /\ generating' = g
         /\ seen1' = YesNo(IndicatorVisible(obs))
         /\ seen2' = "none"
         /\ raised1' = AllRaised(obs)
         /\ raised2' = FALSE
         /\ allVisible' = (allVisible /\ IndicatorVisible(obs))
         /\ IF g
              THEN /\ \E q \in 0..MaxQuery : clock' = AfterSleep(clock + q)
                   /\ pc' = "ga_iteration_end"
                   /\ trace' = trace \o Seen(g)
                   /\ UNCHANGED pollExit
              ELSE /\ \E q \in 0..MaxQuery, d \in RandomDelay(2000, 3000) :
                        clock' = clock + q + d
                   /\ pc' = AfterAbsent
                   /\ IF AfterAbsent = "ga_poll_done"
                        THEN /\ pollExit' = "complete"
                             /\ Ev("poll_complete")
                        ELSE UNCHANGED <<pollExit, trace>>
    /\ UNCHANGED <<ctl, res, result, pageUrl, find, still_generating>>

\* the loop ends on the second absence only after the indicator was seen
CompleteAfterRecheck_once_seen(still) ==
    ~still /\ \E i \in DOMAIN trace : trace[i] = "indicator_seen"

\* the budget is tested again before the loop is left
CompleteAfterRecheck_within_budget(still) == ~still /\ WithinBudget(clock)

\* if not still_generating: break
CompleteAfterRecheck(still) == ~still

\* the double-check: break when the indicator is still absent, else sleep(5)
ga_recheck ==
    /\ op = "generate_audio"
    /\ pc = "ga_recheck"
    /\ \E obs \in Observations, q \in 0..MaxQuery :
         LET g == ScanIndicator(obs, 1) IN
         /\ still_generating' = g
         /\ seen2' = YesNo(IndicatorVisible(obs))
         /\ raised2' = AllRaised(obs)
         /\ allVisible' = (allVisible /\ IndicatorVisible(obs))
         /\ IF CompleteAfterRecheck(g)
              THEN /\ clock' = clock + q
                   /\ pollExit' = "complete"
                   /\ Ev("poll_complete")
                   /\ pc' = "ga_poll_done"
              ELSE /\ clock' = AfterSleep(clock + q)
                   /\ pc' = "ga_iteration_end"
                   /\ trace' = trace \o Seen(g)
                   /\ UNCHANGED pollExit
    /\ UNCHANGED <<ctl, res, result, pageUrl, find, generating, seen1, raised1>>

\* continue: back to the loop test; the iteration's locals are dead
ga_iteration_end ==
    /\ op = "generate_audio"
    /\ pc = "ga_iteration_end"
    /\ pc' = "ga_poll_head"
    /\ generating' = FALSE
    /\ still_generating' = FALSE
    /\ seen1' = "none"
    /\ seen2' = "none"
    /\ raised1' = FALSE
    /\ raised2' = FALSE
    /\ UNCHANGED <<ctl, res, result, pageUrl, trace, find, clock, pollExit, allVisible>>

\* the poll state is dead after the loop
PollReset ==
    /\ clock' = 0
    /\ generating' = FALSE
    /\ still_generating' = FALSE
    /\ seen1' = "none"
    /\ seen2' = "none"
    /\ raised1' = FALSE
    /\ raised2' = FALSE
    /\ allVisible' = FALSE

\* after the loop: let the UI settle, scroll, look for the audio menu button
\* (the selector rows, then the aria-label fallback), scroll it into view
ga_menu ==
    /\ op = "generate_audio"
    /\ pc = "ga_poll_done"
    /\ PollReset
    /\ UNCHANGED pollExit
    /\ \/ /\ Throw                      \* evaluate, query_selector_all or scroll raised
          /\ UNCHANGED trace
       \/ /\ Ev("menu_search")
          /\ pc' = "ga_menu_click"      \* menu_button found
          /\ UNCHANGED result
       \/ /\ trace' = trace \o << "menu_search", "not_found", "screenshot" >>
          /\ \/ Return(None)            \* not menu_button
             \/ Throw                   \* page.screenshot raised
    /\ UNCHANGED <<ctl, res, pageUrl, find>>

download_selectors ==
    << "[role=\"menuitem\"]:has-text(\"Download\")",
       "li:has-text(\"Download\")",
       "button:has-text(\"Download\")",
       "div:has-text(\"Download\")",
       "span:has-text(\"Download\")",
       "[data-action=\"download\"]",
       "mat-menu-item:has-text(\"Download\")" >>

\* menu_button.click(timeout=5000), the page.evaluate fallback, then the
\* loop over download_selectors with a 2000 ms wait each
ga_menu_click ==
    /\ op = "generate_audio"
    /\ pc = "ga_menu_click"
    /\ \E click \in ClickOutcomes :
         LET clicks == ClickAttempts(click, "click_menu", "click_menu_failed",
                                     "js_click_menu")
         IN
         IF click = "js_failed"
           THEN /\ trace' = trace \o clicks \o << "screenshot" >>
                /\ \/ Return(None)
                   \/ Throw             \* page.screenshot raised
                /\ FindIdle
           ELSE /\ trace' = trace \o clicks \o << "menu_opened" >>
                /\ CallFind(download_selectors, 2000, "ga_download")
                /\ UNCHANGED result
    /\ UNCHANGED <<ctl, res, pageUrl, poll>>

\* what can happen to a download call once it has been made
DownloadOutcomes == {"saved", "trigger_raised", "no_event", "save_failed"}

\* download.suggested_filename: the names the browser may suggest
SuggestedNames == {"report.mp3", "audio.wav"}

\* the output argument of generate_audio when it is given
OutputName(a) == IF a.output THEN "custom.mp3" ELSE None

\* str(Path(download_dir) / filename)
SavePath(filename) ==
    CASE filename = "report.mp3" -> "download_dir/report.mp3"
      [] filename = "audio.wav"  -> "download_dir/audio.wav"
      [] filename = "custom.mp3" -> "download_dir/custom.mp3"

\* DownloadHandler.wait_for_download: the path under the suggested name, or None
wait_for_download(outcome, suggested) ==
    IF outcome = "saved" THEN SavePath(suggested) ELSE None

\* the override is ignored: the file goes under the suggested name
download_with_custom_name_suggested(outcome, suggested, filename) ==
    IF outcome = "saved" THEN SavePath(suggested) ELSE None

\* DownloadHandler.download_with_custom_name: the path under filename, or None
download_with_custom_name(outcome, suggested, filename) ==
    IF outcome = "saved" THEN SavePath(filename) ELSE None

\* if output: download_with_custom_name(...) else: wait_for_download(...)
DownloadCall(a) ==
    IF a.output THEN "download_with_custom_name" ELSE "wait_for_download"

\* only the wait for the download event is guarded
DownloadCaught_timeout_only(outcome) == outcome = "no_event"

\* except Exception as e: print("Download failed") around the whole scope
DownloadCaught(outcome) == outcome \in {"trigger_raised", "no_event", "save_failed"}

\* the trigger runs first, the listener is set up afterwards
FirstDownloadStep_trigger == "dl_trigger"

\* with page.expect_download(timeout=timeout) as download_info: opens the call
FirstDownloadStep == "dl_expect"

\* if not download_option: screenshot, return None; else call the handler
ga_download ==
    /\ op = "generate_audio"
    /\ pc = "ga_download"
    /\ IF found[1] = None
         THEN /\ trace' = trace \o << "not_found", "screenshot" >>
              /\ \/ Return(None)
                 \/ Throw               \* page.screenshot raised
         ELSE /\ Ev(DownloadCall(args))
              /\ pc' = FirstDownloadStep
              /\ UNCHANGED result
    /\ FindReset
    /\ UNCHANGED <<ctl, res, pageUrl, poll>>

\* with page.expect_download(timeout=timeout) as download_info:
dl_expect ==
    /\ op = "generate_audio"
    /\ pc = "dl_expect"
    /\ Ev("expect_download")
    /\ pc' = "dl_trigger"
    /\ UNCHANGED <<ctl, res, result, pageUrl, find, poll>>

\* the end of the download call and `if download_path:` in generate_audio:
\* the path is returned, or "Download failed" is printed and None returned;
\* an error the handler does not catch reaches generate_audio's except clause
DownloadFinish(outcome, suggested, events) ==
    IF outcome # "saved" /\ ~DownloadCaught(outcome)
      THEN /\ trace' = trace \o events
           /\ Throw
      ELSE LET download_path ==
                 IF DownloadCall(args) = "download_with_custom_name"
                   THEN download_with_custom_name(outcome, suggested, OutputName(args))
                   ELSE wait_for_download(outcome, suggested)
           IN  IF download_path # None
                 THEN /\ trace' = trace \o events
                      /\ Return(download_path)
                 ELSE /\ trace' = trace \o events \o << "download_failed" >>
                      /\ Return(None)

\* trigger_action() inside the scope: download_option.click()
dl_trigger ==
    /\ op = "generate_audio"
    /\ pc = "dl_trigger"
    /\ \/ /\ Ev("download_trigger")
          /\ pc' = "dl_wait"
          /\ UNCHANGED result
       \/ DownloadFinish("trigger_raised", "report.mp3", << "trigger_raised" >>)
    /\ UNCHANGED <<ctl, res, pageUrl, find, poll>>

\* leaving the scope waits for the download event; download_info.value,
\* download.save_as(str(save_path)); return download_path
dl_wait ==
    /\ op = "generate_audio"
    /\ pc = "dl_wait"
    /\ \/ DownloadFinish("no_event", "report.mp3", << "no_event" >>)
       \/ \E suggested \in SuggestedNames, outcome \in {"saved", "save_failed"} :
            DownloadFinish(outcome, suggested,
                           << "download_event", suggested,
                              IF outcome = "saved" THEN "download_saved"
                                                   ELSE "save_failed" >>)
    /\ UNCHANGED <<ctl, res, pageUrl, find, poll>>

GenerateAudioNext ==
    \/ ga_entry \/ ga_navigate \/ ga_studio \/ ga_customize_done \/ ga_card_done
    \/ ga_format \/ ga_format_done \/ ga_length \/ ga_length_done
    \/ ga_instructions \/ ga_instructions_done \/ ga_generate \/ ga_generate_done
    \/ ga_click \/ ga_poll_head \/ ga_check \/ ga_recheck \/ ga_iteration_end
    \/ ga_menu \/ ga_menu_click \/ ga_download \/ dl_expect \/ dl_trigger \/ dl_wait

----------------------------------------------------------------------------
(* source_manager.py *)

ADD_SOURCE_SELECTORS ==
    << "button:has-text(\"Add sources\")",
       "button:has-text(\"+ Add sources\")",
       "[aria-label=\"Add sources\"]",
       "div:has-text(\"Add sources\")",
       ".add-sources-button" >>

SOURCE_TYPE_SELECTORS ==
    [ web  |-> << "button:has-text(\"Web\")", "[aria-label=\"Web\"]" >>,
      text |-> << "button:has-text(\"Copied text\")", "button:has-text(\"Text\")" >> ]

\* source_manager.add_url_source: the authentication check
sm_url_entry ==
    /\ op = "sm_add_url_source"
    /\ pc = "entry"
    /\ IF ~authed
         THEN NotAuthenticated
         ELSE /\ pc' = "start_driver"
              /\ UNCHANGED result
    /\ UNCHANGED <<ctl, res, pageUrl, trace, find, poll>>

sm_url_navigate ==
    /\ op = "sm_add_url_source"
    /\ pc = "navigate"
    /\ Navigate("sm_url_dialog")
    /\ UNCHANGED <<ctl, res, find, poll>>

\* the dialog is already open, or look for the Add sources button
sm_url_dialog ==
    /\ op = "sm_add_url_source"
    /\ pc = "sm_url_dialog"
    /\ \/ /\ Throw                      \* query_selector raised
          /\ FindIdle
          /\ UNCHANGED trace
       \/ /\ pc' = "sm_url_input"       \* web_search_visible or websites_button
          /\ Ev("configure")
          /\ FindIdle
          /\ UNCHANGED result
       \/ /\ CallFind(ADD_SOURCE_SELECTORS, 10000, "sm_url_add_done")
          /\ Ev("configure")
          /\ UNCHANGED result
    /\ UNCHANGED <<ctl, res, pageUrl, poll>>

\* if not add_button: the alternative query, else screenshot and return False;
\* add_button.click()
sm_url_add_done ==
    /\ op = "sm_add_url_source"
    /\ pc = "sm_url_add_done"
    /\ \/ /\ found[1] = None
          /\ trace' = trace \o << "not_found", "screenshot" >>         \* the alternative query found nothing
          /\ \/ Return("False")
             \/ Throw                   \* page.screenshot raised
       \/ /\ pc' = "sm_url_input"       \* a button from either lookup, clicked
          /\ UNCHANGED <<result, trace>>
       \/ /\ Throw                      \* alternative query or click raised
          /\ UNCHANGED trace
    /\ FindReset
    /\ UNCHANGED <<ctl, res, pageUrl, poll>>

\* the Websites button, the textarea path (Insert button or Enter), the
\* input-field path (Enter), or screenshot and return False
sm_url_input ==
    /\ op = "sm_add_url_source"
    /\ pc = "sm_url_input"
    /\ \/ /\ Throw                      \* a query, click, fill or key press raised
          /\ UNCHANGED trace
       \/ \E how \in {"textarea_insert", "textarea_enter", "input_enter"} :
            /\ trace' = trace \o
                 (CASE how = "textarea_insert" ->
                         << "payload_entered", "click_insert", "submit" >>
                    [] how = "textarea_enter" ->   \* no Insert button: press Enter
                         << "payload_entered", "submit_not_found", "enter", "submit" >>
                    [] how = "input_enter" ->      \* the input field: press Enter
                         << "payload_entered", "enter", "submit" >>)
            /\ Return("True")
       \/ /\ trace' = trace \o << "not_found", "screenshot" >>  \* neither a textarea nor an input
          /\ \/ Return("False")
             \/ Throw                   \* page.screenshot raised
    /\ UNCHANGED <<ctl, res, pageUrl, find, poll>>

SmAddUrlNext ==
    \/ sm_url_entry \/ sm_url_navigate \/ sm_url_dialog \/ sm_url_add_done
    \/ sm_url_input

\* source_manager.add_text_source: read the file, require content, then the
\* authentication check
sm_text_entry ==
    /\ op = "sm_add_text_source"
    /\ pc = "entry"
    /\ LET readFile == args.file # "none" /\ args.content \in {"none", "empty"}
           content == IF readFile THEN args.file ELSE args.content
       IN  IF readFile /\ args.file = "unreadable"
             THEN /\ result' = "False"      \* could not read file
                  /\ pc' = "returned"
           ELSE IF content \in {"none", "empty"}
             THEN /\ result' = "False"      \* no content provided
                  /\ pc' = "returned"
           ELSE IF ~authed
             THEN NotAuthenticated
           ELSE /\ pc' = "start_driver"
                /\ UNCHANGED result
    /\ UNCHANGED <<ctl, res, pageUrl, trace, find, poll>>

sm_text_navigate ==
    /\ op = "sm_add_text_source"
    /\ pc = "navigate"
    /\ Navigate("sm_text_add")
    /\ UNCHANGED <<ctl, res, find, poll>>

\* find_element_with_selectors(page, ADD_SOURCE_SELECTORS)
sm_text_add ==
    /\ op = "sm_add_text_source"
    /\ pc = "sm_text_add"
    /\ CallFind(ADD_SOURCE_SELECTORS, 5000, "sm_text_add_done")
    /\ Ev("configure")
    /\ UNCHANGED <<ctl, res, result, pageUrl, poll>>

\* if not add_button: return False; click; look for the Text option
sm_text_add_done ==
    /\ op = "sm_add_text_source"
    /\ pc = "sm_text_add_done"
    /\ IF found[1] = None
         THEN /\ Ev("not_found")
              /\ Return("False")
              /\ FindReset
         ELSE \/ /\ UNCHANGED trace
                 /\ CallFind(SOURCE_TYPE_SELECTORS.text, 5000, "sm_text_type_done")
                 /\ UNCHANGED result
              \/ /\ Throw               \* click raised
                 /\ UNCHANGED trace
                 /\ FindReset
    /\ UNCHANGED <<ctl, res, pageUrl, poll>>

\* if not text_button: return False; click; title; content textarea (return
\* False without one); the submit button or Enter; return True
sm_text_type_done ==
    /\ op = "sm_add_text_source"
    /\ pc = "sm_text_type_done"
    /\ IF found[1] = None
         THEN /\ Return("False")
              /\ Ev("not_found")
         ELSE \/ /\ Throw               \* a query, click, type, fill or key press raised
                 /\ UNCHANGED trace
              \/ /\ Return("False")     \* no content textarea
                 /\ Ev("not_found")
              \/ \E how \in {"submit_button", "enter"} :
                   /\ trace' = trace \o
                        (IF how = "submit_button"
                           THEN << "payload_entered", "click_submit", "submit" >>
                           ELSE << "payload_entered", "submit_not_found", "enter",
                                   "submit" >>)
                   /\ Return("True")
    /\ FindReset
    /\ UNCHANGED <<ctl, res, pageUrl, poll>>

SmAddTextNext ==
    \/ sm_text_entry \/ sm_text_navigate \/ sm_text_add \/ sm_text_add_done
    \/ sm_text_type_done

----------------------------------------------------------------------------
(* add_source.py.  The selector lists it imports are not part of config.py *)
(* as given; each is a list of two placeholders.                           *)

ADD_SOURCE_BUTTON_SELECTORS ==
    << "ADD_SOURCE_BUTTON_SELECTORS[0]", "ADD_SOURCE_BUTTON_SELECTORS[1]" >>
PASTE_TEXT_CHIP_SELECTORS ==
    << "PASTE_TEXT_CHIP_SELECTORS[0]", "PASTE_TEXT_CHIP_SELECTORS[1]" >>
PASTE_TEXT_TEXTAREA_SELECTORS ==
    << "PASTE_TEXT_TEXTAREA_SELECTORS[0]", "PASTE_TEXT_TEXTAREA_SELECTORS[1]" >>
INSERT_BUTTON_SELECTORS ==
    << "INSERT_BUTTON_SELECTORS[0]", "INSERT_BUTTON_SELECTORS[1]" >>
URL_CHIP_SELECTORS ==
    << "URL_CHIP_SELECTORS[0]", "URL_CHIP_SELECTORS[1]" >>
URL_INPUT_SELECTORS ==
    << "URL_INPUT_SELECTORS[0]", "URL_INPUT_SELECTORS[1]" >>

\* only the empty string is rejected
EmptyPayload_ignores_whitespace(a) == a.len = 0

\* if not content or not content.strip()
EmptyPayload(a) == a.len = 0 \/ a.blank

\* add_source.add_text_source: the authentication and the content checks
as_text_entry ==
    /\ op = "as_add_text_source"
    /\ pc = "entry"
    /\ IF ~authed
         THEN NotAuthenticated
       ELSE IF EmptyPayload(args)
         THEN /\ result' = None         \* content cannot be empty
              /\ pc' = "returned"
       ELSE /\ pc' = "start_driver"
            /\ UNCHANGED result
    /\ UNCHANGED <<ctl, res, pageUrl, trace, find, poll>>

as_text_navigate ==
    /\ op = "as_add_text_source"
    /\ pc = "navigate"
    /\ Navigate("as_text_check_url")
    /\ UNCHANGED <<ctl, res, find, poll>>

\* every page of the application is taken for a notebook page
IsNotebookPage_any_notebooklm(url) == OnNotebookLM(url)

\* "/notebook/" in page.url
IsNotebookPage(url) == url = "notebook"

\* if "/notebook/" not in page.url: return None; the Sources tab (errors
\* ignored); then the loop over ADD_SOURCE_BUTTON_SELECTORS
as_text_check_url ==
    /\ op = "as_add_text_source"
    /\ pc = "as_text_check_url"
    /\ IF ~IsNotebookPage(pageUrl)
         THEN /\ Return(None)
              /\ FindIdle
              /\ UNCHANGED trace
         ELSE /\ CallFind(ADD_SOURCE_BUTTON_SELECTORS, 5000, "as_text_add_done")
              /\ Ev("configure")
              /\ UNCHANGED result
    /\ UNCHANGED <<ctl, res, pageUrl, poll>>

\* if not add_btn: screenshot, return None; click; the chip loop
as_text_add_done ==
    /\ op = "as_add_text_source"
    /\ pc = "as_text_add_done"
    /\ IF found[1] = None
         THEN /\ trace' = trace \o << "not_found", "screenshot" >>
              /\ \/ Return(None)
                 \/ Throw               \* page.screenshot raised
              /\ FindReset
         ELSE /\ \/ /\ CallFind(PASTE_TEXT_CHIP_SELECTORS, 3000, "as_text_chip_done")
                    /\ UNCHANGED result
                 \/ /\ Throw            \* click raised
                    /\ FindReset
              /\ UNCHANGED trace
    /\ UNCHANGED <<ctl, res, pageUrl, poll>>

\* if not chip: return None; click; the textarea loop
as_text_chip_done ==
    /\ op = "as_add_text_source"
    /\ pc = "as_text_chip_done"
    /\ IF found[1] = None
         THEN /\ Ev("not_found")
              /\ Return(None)
              /\ FindReset
         ELSE \/ /\ UNCHANGED trace
                 /\ CallFind(PASTE_TEXT_TEXTAREA_SELECTORS, 3000, "as_text_textarea_done")
                 /\ UNCHANGED result
              \/ /\ Throw               \* click raised
                 /\ UNCHANGED trace
                 /\ FindReset
    /\ UNCHANGED <<ctl, res, pageUrl, poll>>

\* StealthUtils.human_type: types only when the selector gives an element;
\* the element of the selector that resolved the textarea is there
HumanTyped(selector, resolved, present) == selector = resolved \/ present

\* the bulk fill starts at 500 characters
UseFill_at_threshold(n) == n >= 500

\* if len(content) > 500: textarea.fill(content) else: human_type(...)
UseFill(n) == n > 500

\* if not textarea: return None; click; fill() for more than 500 characters,
\* human_type otherwise; the Insert button loop
as_text_textarea_done ==
    /\ op = "as_add_text_source"
    /\ pc = "as_text_textarea_done"
    /\ IF found[1] = None
         THEN /\ Return(None)
              /\ FindReset
              /\ Ev("not_found")
         ELSE \/ /\ Throw               \* click, fill or type raised
                 /\ FindReset
                 /\ UNCHANGED trace
              \/ /\ \E present \in BOOLEAN :
                      trace' = trace \o
                        (IF UseFill(args.len)
                           THEN << "fill", "payload_entered" >>
                         ELSE IF HumanTyped(PASTE_TEXT_TEXTAREA_SELECTORS[1],
                                            found[2], present)
                           THEN << "human_type", "payload_entered" >>
                         ELSE << "human_type" >>)
                 /\ CallFind(INSERT_BUTTON_SELECTORS, 3000, "as_text_insert_done")
                 /\ UNCHANGED result
    /\ UNCHANGED <<ctl, res, pageUrl, poll>>

\* if not insert_btn: return None; click; the error check; the success message
as_text_insert_done ==
    /\ op = "as_add_text_source"
    /\ pc = "as_text_insert_done"
    /\ IF found[1] = None
         THEN /\ Return(None)
              /\ Ev("not_found")
         ELSE \/ /\ Throw               \* insert_btn.click() raised
                 /\ trace' = trace \o << "click_insert", "click_failed" >>
              \/ /\ trace' = trace \o << "click_insert", "submit" >>
                 /\ \/ Return(None)     \* an error element is visible
                    \/ Return("Successfully added text source")
    /\ FindReset
    /\ UNCHANGED <<ctl, res, pageUrl, poll>>

AsAddTextNext ==
    \/ as_text_entry \/ as_text_navigate \/ as_text_check_url \/ as_text_add_done
    \/ as_text_chip_done \/ as_text_textarea_done \/ as_text_insert_done

\* add_source.add_url_source: the authentication and the URL checks
as_url_entry ==
    /\ op = "as_add_url_source"
    /\ pc = "entry"
    /\ IF ~authed
         THEN NotAuthenticated
       ELSE IF EmptyPayload(args)
         THEN /\ result' = None         \* URL cannot be empty
              /\ pc' = "returned"
       ELSE /\ pc' = "start_driver"
            /\ UNCHANGED result
    /\ UNCHANGED <<ctl, res, pageUrl, trace, find, poll>>

as_url_navigate ==
    /\ op = "as_add_url_source"
    /\ pc = "navigate"
    /\ Navigate("as_url_add")
    /\ UNCHANGED <<ctl, res, find, poll>>

\* the Sources tab (errors ignored); the loop over ADD_SOURCE_BUTTON_SELECTORS
as_url_add ==
    /\ op = "as_add_url_source"
    /\ pc = "as_url_add"
    /\ CallFind(ADD_SOURCE_BUTTON_SELECTORS, 5000, "as_url_add_done")
    /\ Ev("configure")
    /\ UNCHANGED <<ctl, res, result, pageUrl, poll>>

\* chip_selector = f'mat-chip:has-text("{source_type}")'
chip_selector == "mat-chip:has-text(source_type)"

\* if not add_btn: return None; click; the loop over the chip selectors
as_url_add_done ==
    /\ op = "as_add_url_source"
    /\ pc = "as_url_add_done"
    /\ IF found[1] = None
         THEN /\ Ev("not_found")
              /\ Return(None)
              /\ FindReset
         ELSE \/ /\ UNCHANGED trace
                 /\ CallFind(<< chip_selector >> \o URL_CHIP_SELECTORS, 3000,
                             "as_url_chip_done")
                 /\ UNCHANGED result
              \/ /\ Throw               \* click raised
                 /\ UNCHANGED trace
                 /\ FindReset
    /\ UNCHANGED <<ctl, res, pageUrl, poll>>

\* if not chip: return None; click; the loop over URL_INPUT_SELECTORS
as_url_chip_done ==
    /\ op = "as_add_url_source"
    /\ pc = "as_url_chip_done"
    /\ IF found[1] = None
         THEN /\ Ev("not_found")
              /\ Return(None)
              /\ FindReset
         ELSE \/ /\ UNCHANGED trace
                 /\ CallFind(URL_INPUT_SELECTORS, 3000, "as_url_input_done")
                 /\ UNCHANGED result
              \/ /\ Throw               \* click raised
                 /\ UNCHANGED trace
                 /\ FindReset
    /\ UNCHANGED <<ctl, res, pageUrl, poll>>

\* what one round of the Insert loop can meet
InsertOutcomes ==
    {"query_raised", "none", "invisible", "click_raised", "clicked"}

\* for selector in INSERT_BUTTON_SELECTORS: query_selector; click and break
\* when visible; except: continue.  Gives insert_btn and whether it clicked.
RECURSIVE InsertLoop(_, _, _)
InsertLoop(outs, i, insert_btn) ==
    IF i > Len(outs) THEN [insert_btn |-> insert_btn, clicked |-> FALSE]
    ELSE IF outs[i] = "query_raised" THEN InsertLoop(outs, i + 1, insert_btn)
    ELSE IF outs[i] = "none" THEN InsertLoop(outs, i + 1, None)
    ELSE IF outs[i] = "clicked"
        THEN [insert_btn |-> INSERT_BUTTON_SELECTORS[i], clicked |-> TRUE]
    ELSE InsertLoop(outs, i + 1, INSERT_BUTTON_SELECTORS[i])

\* if not url_input: return None; click, fill; the Insert loop; Enter when
\* insert_btn is None; the success message
as_url_input_done ==
    /\ op = "as_add_url_source"
    /\ pc = "as_url_input_done"
    /\ IF found[1] = None
         THEN /\ Return(None)
              /\ Ev("not_found")
         ELSE \/ /\ Throw               \* click, fill or key press raised
                 /\ UNCHANGED trace
              \/ \E outs \in [1..Len(INSERT_BUTTON_SELECTORS) -> InsertOutcomes] :
                   LET r == InsertLoop(outs, 1, None) IN
                   /\ trace' = trace \o
                        (IF r.clicked THEN << "payload_entered", "click_insert", "submit" >>
                         ELSE IF r.insert_btn = None
                           THEN << "payload_entered", "submit_not_found", "enter",
                                   "submit" >>
                         ELSE << "payload_entered" >>)
                   /\ Return("Successfully added source")
    /\ FindReset
    /\ UNCHANGED <<ctl, res, pageUrl, poll>>

AsAddUrlNext ==
    \/ as_url_entry \/ as_url_navigate \/ as_url_add \/ as_url_add_done
    \/ as_url_chip_done \/ as_url_input_done

----------------------------------------------------------------------------
(* notebook_creator.py *)

CREATE_NOTEBOOK_SELECTORS ==
    << "button:has-text(\"Create new\")",
       "button:has-text(\"Create notebook\")",
       "[aria-label=\"Create new notebook\"]" >>

\* create_notebook: the authentication check
cn_entry ==
    /\ op = "create_notebook"
    /\ pc = "entry"
    /\ IF ~authed
         THEN NotAuthenticated
         ELSE /\ pc' = "start_driver"
              /\ UNCHANGED result
    /\ UNCHANGED <<ctl, res, pageUrl, trace, find, poll>>

cn_navigate ==
    /\ op = "create_notebook"
    /\ pc = "navigate"
    /\ Navigate("cn_create")
    /\ UNCHANGED <<ctl, res, find, poll>>

\* the loop over CREATE_NOTEBOOK_SELECTORS
cn_create ==
    /\ op = "create_notebook"
    /\ pc = "cn_create"
    /\ CallFind(CREATE_NOTEBOOK_SELECTORS, 5000, "cn_create_done")
    /\ UNCHANGED <<ctl, res, result, pageUrl, trace, poll>>

\* the name argument: a string, or None when none was asked for
RequestedName(a) == IF a.name THEN "name" ELSE None

\* how the rename attempt can go: not made (no name), the title typed, no
\* title element on the page, or a query, click or key press that raised
RenameOutcomes(a) ==
    IF a.name THEN {"renamed", "no_title_element", "raised"} ELSE {"not_asked"}

\* the name is the one the page shows: the default when the rename failed
NotebookName_as_on_page(requested, rename) ==
    IF rename = "renamed" THEN requested ELSE "Untitled notebook"

\* 'name': name in the returned dictionary
NotebookName(requested, rename) == requested

\* return {'url': notebook_url, 'id': notebook_id, 'name': ...}
NotebookDict(n) ==
    CASE n = None -> "dict(name=None)"
      [] n = "name" -> "dict(name=name)"
      [] OTHER -> "dict(name=Untitled notebook)"

\* if not create_button: return None; click; wait for the notebook URL
\* (return None on timeout); the rename attempt; return the dictionary
cn_create_done ==
    /\ op = "create_notebook"
    /\ pc = "cn_create_done"
    /\ IF found[1] = None
         THEN /\ Return(None)
              /\ Ev("not_found")
              /\ UNCHANGED pageUrl
         ELSE \/ /\ Throw               \* create_button.click() raised
                 /\ trace' = trace \o << "click_create", "click_failed" >>
                 /\ UNCHANGED pageUrl
              \/ /\ trace' = trace \o << "click_create", "submit", "url_timeout" >>
                 /\ Return(None)        \* timeout waiting for the notebook page
                 /\ UNCHANGED pageUrl
              \/ \E rename \in RenameOutcomes(args) :
                   /\ trace' = trace \o << "click_create", "submit", "url_reached" >>
                                     \o (IF rename = "not_asked" THEN << >>
                                         ELSE << "rename", rename >>)
                   /\ pageUrl' = "notebook"
                   /\ Return(NotebookDict(NotebookName(RequestedName(args), rename)))
    /\ FindReset
    /\ UNCHANGED <<ctl, res, poll>>

CreateNotebookNext == cn_entry \/ cn_navigate \/ cn_create \/ cn_create_done

----------------------------------------------------------------------------
(* Several invocations on one profile directory and one state.json *)

Procs == 1..NumProcs

\* the cookies a snapshot can hold: one with expires = -1, one with a date
Cookies == {"session_cookie", "persistent_cookie"}

SessionScoped(c) == c = "session_cookie"

\* state.json: not there, there but open() or json.load() raises, or readable
\* with a list of cookies (possibly empty)
Snapshots ==
    { [kind |-> "missing", cookies |-> {}], [kind |-> "unreadable", cookies |-> {}] }
    \cup { [kind |-> "readable", cookies |-> c] : c \in SUBSET Cookies }

NoSnapshot == [kind |-> "missing", cookies |-> {}]

\* playwright = None; context = None, before the try
IdleProc ==
    [ pc |-> "start", playwright |-> None, context |-> None, driver |-> "none",
      ctx |-> "none", refused |-> FALSE, injected |-> FALSE, handed |-> {},
      jar |-> {}, navigated |-> FALSE, result |-> "unset" ]

\* only the cookies with a date are passed on
CookiesToInject_persistent_only(sf) ==
    IF sf.kind = "readable" THEN { c \in sf.cookies : ~SessionScoped(c) } ELSE {}

\* if STATE_FILE.exists(): state = json.load(f); if 'cookies' in state and
\* len(state['cookies']) > 0: context.add_cookies(state['cookies'])
CookiesToInject(sf) == IF sf.kind = "readable" THEN sf.cookies ELSE {}

\* reading the snapshot uses it up
SnapshotAfterInject_consumed(sf) == NoSnapshot

\* with open(STATE_FILE, 'r') as f: the file is opened for reading only
SnapshotAfterInject(sf) == sf

\* the browser engine refuses to launch on a profile directory another
\* browser holds
Refused(holder, p) == holder \notin {0, p}

\* except Exception: print, return None; the finally clause follows
p_raise(p) ==
    procs' = [procs EXCEPT ![p].result = None, ![p].pc = "finally_context"]

\* playwright = sync_playwright().start()
p_start_driver(p) ==
    /\ procs[p].pc = "start"
    /\ \/ procs' = [procs EXCEPT ![p].playwright = "driver", ![p].driver = "running",
                                 ![p].pc = "launch"]
       \/ p_raise(p)
    /\ UNCHANGED <<profile, stateFile, local>>

\* context = playwright.chromium.launch_persistent_context(user_data_dir=...)
p_launch_persistent_context(p) ==
    /\ procs[p].pc = "launch"
    /\ IF Refused(profile, p)
         THEN /\ procs' = [procs EXCEPT ![p].refused = TRUE, ![p].result = None,
                                        ![p].pc = "finally_context"]
              /\ UNCHANGED profile
         ELSE \/ /\ procs' = [procs EXCEPT ![p].ctx = "live", ![p].pc = "inject"]
                 /\ profile' = p
              \/ /\ p_raise(p)          \* the launch raised for another reason
                 /\ UNCHANGED profile
    /\ UNCHANGED <<stateFile, local>>

\* an error met while injecting ends the try block of the caller
AfterInject_error_propagates(sf, addOk) ==
    IF sf.kind = "unreadable" \/ (sf.kind = "readable" /\ sf.cookies # {} /\ ~addOk)
      THEN "finally_context" ELSE "navigate"

\* except Exception as e: print("Could not load state.json"); then
\* return context: the caller goes on with context.new_page()
AfterInject(sf, addOk) == "navigate"

\* BrowserFactory._inject_cookies(context); return context
p_inject_cookies(p) ==
    /\ procs[p].pc = "inject"
    /\ \E addOk \in BOOLEAN :
         LET cookies == CookiesToInject(stateFile) IN
         procs' = [procs EXCEPT ![p].injected = TRUE,
                                ![p].handed = cookies,
                                ![p].jar = IF addOk THEN cookies ELSE {},
                                ![p].context = "ctx",
                                ![p].pc = AfterInject(stateFile, addOk)]
    /\ stateFile' = SnapshotAfterInject(stateFile)
    /\ UNCHANGED <<profile, local>>

\* page = context.new_page(); page.goto(notebook_url, ...)
p_navigate(p) ==
    /\ procs[p].pc = "navigate"
    /\ \/ procs' = [procs EXCEPT ![p].navigated = TRUE, ![p].pc = "act"]
       \/ p_raise(p)
    /\ UNCHANGED <<profile, stateFile, local>>

\* the rest of the try block: a value is returned, or an error is caught
p_act(p) ==
    /\ procs[p].pc = "act"
    /\ \E v \in {None, "path"} :
         procs' = [procs EXCEPT ![p].result = v, ![p].pc = "finally_context"]
    /\ UNCHANGED <<profile, stateFile, local>>

\* finally: if context: try: context.close() except: pass
p_finally_context(p) ==
    /\ procs[p].pc = "finally_context"
    /\ IF procs[p].context # None
         THEN \/ /\ procs' = [procs EXCEPT ![p].ctx = "closed", ![p].pc = AfterClose(TRUE)]
                 /\ profile' = IF profile = p THEN 0 ELSE profile
              \/ /\ procs' = [procs EXCEPT ![p].ctx = "close_failed",
                                           ![p].pc = AfterClose(FALSE)]
                 /\ UNCHANGED profile   \* the browser is still up
         ELSE /\ procs' = [procs EXCEPT ![p].pc = "finally_driver"]
              /\ UNCHANGED profile
    /\ UNCHANGED <<stateFile, local>>

\* finally: if playwright: try: playwright.stop() except: pass
p_finally_driver(p) ==
    /\ procs[p].pc = "finally_driver"
    /\ IF ShouldStop(procs[p].playwright)
         THEN \/ /\ procs' = [procs EXCEPT ![p].driver = "stopped", ![p].pc = "returned"]
                 /\ profile' = IF profile = p THEN 0 ELSE profile
              \/ /\ procs' = [procs EXCEPT ![p].driver = "stop_failed",
                                           ![p].pc = "returned"]
                 /\ UNCHANGED profile
         ELSE /\ procs' = [procs EXCEPT ![p].pc = "returned"]
              /\ UNCHANGED profile
    /\ UNCHANGED <<stateFile, local>>

----------------------------------------------------------------------------
(* Specifications *)

\* format and length: a key of the selector tables or not; instructions and
\* output: given or not
GenerateAudioArgs ==
    { [format |-> "deep_dive", length |-> "default", instructions |-> FALSE, output |-> FALSE],
      [format |-> "brief", length |-> "other", instructions |-> TRUE, output |-> FALSE],
      [format |-> "other", length |-> "long", instructions |-> FALSE, output |-> TRUE],
      [format |-> "other", length |-> "other", instructions |-> TRUE, output |-> TRUE] }

\* the locals before the try, no browser, no run on the profile
InitState ==
    /\ profile = 0
    /\ procs = [p \in Procs |-> IdleProc]
    /\ result = "unset"
    /\ playwright = None
    /\ context = None
    /\ driverState = "none"
    /\ ctxState = "none"
    /\ cookiesInjected = FALSE
    /\ pageUrl = "none"
    /\ trace = << >>
    /\ fSelectors = << >>
    /\ fTimeout = 0
    /\ fIdx = 0
    /\ fElapsed = 0
    /\ fQueried = << >>
    /\ fFirstMatch = 0
    /\ fStarved = FALSE
    /\ fRaised = FALSE
    /\ fRet = "none"
    /\ found = << "unset", "unset" >>
    /\ clock = 0
    /\ generating = FALSE
    /\ still_generating = FALSE
    /\ pollExit = "none"
    /\ seen1 = "none"
    /\ seen2 = "none"
    /\ raised1 = FALSE
    /\ raised2 = FALSE
    /\ allVisible = FALSE

InitCommon ==
    /\ authed \in BOOLEAN
    /\ pc = "entry"
    /\ stateFile = NoSnapshot
    /\ InitState

InitGenerateAudio ==
    /\ op = "generate_audio"
    /\ args \in GenerateAudioArgs
    /\ InitCommon

Shared ==
    \/ start_driver \/ launch_persistent_context \/ find_try \/ find_exhausted
    \/ finally_context \/ finally_driver

AudioNext == GenerateAudioNext \/ Shared

\* one invocation of generate_audio
AudioSpec == InitGenerateAudio /\ [][AudioNext]_vars

Operations ==
    {"generate_audio", "sm_add_url_source", "sm_add_text_source",
     "as_add_text_source", "as_add_url_source", "create_notebook"}

\* the text or URL payload: its length, and whether it is only whitespace
PayloadArgs ==
    { [len |-> 0, blank |-> TRUE], [len |-> 1, blank |-> TRUE],
      [len |-> 1, blank |-> FALSE], [len |-> 500, blank |-> FALSE],
      [len |-> 501, blank |-> FALSE] }

\* content: not given, "" or text; file: not given, unreadable, empty or text
SmTextArgs ==
    [ content : {"none", "empty", "text"},
      file : {"none", "unreadable", "empty", "text"} ]

CreateNotebookArgs == [ name : BOOLEAN ]

ArgsOf(o) ==
    CASE o = "generate_audio" -> GenerateAudioArgs
      [] o = "sm_add_url_source" -> { [source_url |-> "url"] }
      [] o = "sm_add_text_source" -> SmTextArgs
      [] o \in {"as_add_text_source", "as_add_url_source"} -> PayloadArgs
      [] o = "create_notebook" -> CreateNotebookArgs

Init ==
    /\ op \in Operations
    /\ args \in ArgsOf(op)
    /\ InitCommon

Next ==
    \/ GenerateAudioNext \/ SmAddUrlNext \/ SmAddTextNext \/ AsAddTextNext
    \/ AsAddUrlNext \/ CreateNotebookNext \/ Shared

\* one invocation of any one operation
Spec == Init /\ [][Next]_vars

\* generate_audio under the scheduling of a sequential program: a step that
\* can be taken is taken
AudioLiveSpec == AudioSpec /\ WF_vars(AudioNext)

\* every operation, with every step that can be taken eventually taken: each
\* wait on the browser returns within its timeout
LiveSpec == Spec /\ WF_vars(Next)

\* authenticated invocations of generate_audio, each a process of its own, on
\* the one profile directory and any snapshot
ProfileInit ==
    /\ op = "generate_audio"
    /\ args = CHOOSE a \in GenerateAudioArgs : ~a.output /\ ~a.instructions
    /\ authed = TRUE
    /\ pc = "processes"
    /\ stateFile \in Snapshots
    /\ InitState

ProfileNext ==
    \E p \in Procs :
        \/ p_start_driver(p) \/ p_launch_persistent_context(p)
        \/ p_inject_cookies(p) \/ p_navigate(p) \/ p_act(p)
        \/ p_finally_context(p) \/ p_finally_driver(p)

ProfileSpec == ProfileInit /\ [][ProfileNext]_vars

----------------------------------------------------------------------------
(* Properties *)

Range(f) == { f[i] : i \in DOMAIN f }

\* the resolver has just returned to its caller, which has not yet read the pair
FindReturned == pc = fRet

\* the steps that can follow the end of the try block
Releasing == pc \in {"finally_context", "finally_driver", "returned"}

\* C1: while every indicator check since submission has shown the indicator,
\* the poll loop has not left through the completion branch.
C1_NoCompletionWhileVisible == allVisible => pollExit # "complete"

C1_Witness ==
    /\ allVisible
    /\ pc = "ga_iteration_end"
    /\ seen1 = "yes"
    /\ clock >= 60

\* C2: completion is declared only when the check and the re-check of the
\* same iteration both showed no indicator; an absence followed by a visible
\* re-check declares nothing and leads back to the loop test.
C2_CompletionNeedsBothAbsent ==
    /\ (pc = "ga_poll_done" => pollExit = "complete" /\ seen1 = "no" /\ seen2 = "no")
    /\ (seen1 = "no" /\ seen2 = "yes" => pollExit = "none" /\ pc = "ga_iteration_end")
    /\ (pollExit = "complete" => "poll_complete" \in Range(trace))

C2_Witness ==
    /\ pc = "ga_iteration_end"
    /\ seen1 = "no"
    /\ seen2 = "yes"
    /\ pollExit = "none"

\* C3: generate_audio always returns; a loop test that finds the elapsed time
\* at or above the budget ends the loop with the failure value; and a run in
\* which the indicator never disappeared returns through that timeout.
C3_TimeoutEndsPolling ==
    /\ <>(pc = "returned")
    /\ [][pc = "ga_poll_head" /\ clock >= generation_timeout
            => pollExit' = "timeout" /\ result' = None /\ pc' = "finally_context"]_vars
    /\ [](pc = "returned" /\ allVisible => pollExit = "timeout" /\ result = None)

C3_Witness ==
    /\ pc = "returned"
    /\ allVisible
    /\ pollExit = "timeout"
    /\ clock >= generation_timeout

\* C4: once the poll loop ended by timeout only the release runs: no menu
\* search, no download trigger, no second submission, and the result is None.
C4_NothingAfterTimeout ==
    pollExit = "timeout" =>
        /\ Releasing
        /\ result = None
        /\ Range(trace) \cap {"menu_search", "click_menu", "download_trigger"} = {}
        /\ Cardinality({i \in DOMAIN trace : trace[i] = "submitted"}) = 1
        /\ \A i \in DOMAIN trace : \A j \in DOMAIN trace :
             trace[i] = "poll_timeout" /\ j > i
                => trace[j] \in {"context_close", "driver_stop"}

C4_Witness ==
    /\ pollExit = "timeout"
    /\ pc = "returned"
    /\ trace[Len(trace)] = "driver_stop"

\* C5: the resolver returns the element and the selector of the first
\* candidate, in list order, whose wait succeeded, and it has queried exactly
\* the candidates up to that one.
C5_FirstMatchInOrder ==
    /\ (pc = "find" => fFirstMatch = 0)
    /\ (FindReturned /\ found[1] # None =>
          /\ fFirstMatch \in 1..Len(fSelectors)
          /\ found = << fSelectors[fFirstMatch], fSelectors[fFirstMatch] >>
          /\ fQueried = SubSeq(fSelectors, 1, fFirstMatch))

C5_Witness ==
    /\ FindReturned
    /\ found[1] # None
    /\ fFirstMatch = 2
    /\ Len(fSelectors) > 2

\* C6: every candidate is allowed the full timeout: one that shows within the
\* timeout of its own wait is matched, so a match at candidate k comes after at
\* most k timeouts in total.
C6_OwnTimeoutPerCandidate ==
    /\ ~fStarved
    /\ (FindReturned /\ found[1] # None =>
          fElapsed <= Len(fQueried) * (fTimeout \div 1000))

C6_Witness ==
    /\ FindReturned
    /\ found[1] # None
    /\ Len(fQueried) = 2
    /\ fElapsed = 2 * (fTimeout \div 1000)

\* C7: when no candidate matches, the resolver returns (None, None) after
\* handing every candidate to one wait, and no error of a wait reaches the
\* except clause of the operation.
C7_NotFoundAfterAllCandidates ==
    /\ (FindReturned /\ fFirstMatch = 0 =>
          /\ found = << None, None >>
          /\ fQueried = fSelectors)
    /\ (Releasing => fRet = "none")

C7_Witness ==
    /\ FindReturned
    /\ found = << None, None >>
    /\ fRaised
    /\ Len(fQueried) > 2

\* C8: the not-found value of the resolver names every candidate it tried.
C8_NotFoundCarriesCandidates ==
    FindReturned /\ found[1] = None => Range(fQueried) \subseteq Range(found)

\* C9: when an operation has returned, a context that was launched has been
\* closed and a driver that was started has been stopped (the release call
\* was made; an error it raises is ignored).
C9_ReleasedOnEveryExit ==
    pc = "returned" =>
        /\ ctxState # "live"
        /\ driverState # "running"
        /\ ("launch" \in Range(trace) => "context_close" \in Range(trace))
        /\ ("start_driver" \in Range(trace) => "driver_stop" \in Range(trace))

C9_Witness ==
    /\ pc = "returned"
    /\ result = Failure(op)
    /\ "goto" \in Range(trace)
    /\ ctxState = "closed"
    /\ driverState = "stopped"

\* C10: an operation whose authentication check fails returns its failure
\* value and starts no driver, launches no context (so it reads no cookie
\* snapshot and opens no profile) and navigates nowhere.
C10_UnauthenticatedDoesNothing ==
    ~authed =>
        /\ pc \in {"entry", "returned"}
        /\ (pc = "returned" => result = Failure(op))
        /\ playwright = None /\ context = None
        /\ driverState = "none" /\ ctxState = "none"
        /\ ~cookiesInjected
        /\ pageUrl = "none"
        /\ trace = << >>

C10_Witness ==
    /\ ~authed
    /\ pc = "returned"
    /\ op = "sm_add_text_source"
    /\ args.content = "text"
    /\ result = "False"

\* a navigation ended on a page whose URL has no "/notebook/" segment
OffNotebook == pageUrl \notin {"none", "notebook"}

\* the milestones of the Configure and Submit steps
ConfigureSubmitEvents ==
    {"configure", "payload_entered", "fill", "human_type", "click_generate",
     "click_failed", "js_click_generate", "submitted", "click_insert",
     "click_submit", "click_create", "enter", "submit_not_found", "submit"}

\* C11: in add_source.add_url_source, source_manager.add_url_source,
\* source_manager.add_text_source and generate_audio, a navigation that ends off
\* a notebook page is followed by no Configure or Submit step, and the
\* operation returns its failure value.
C11_MismatchStopsOperation ==
    op \in {"as_add_url_source", "sm_add_url_source", "sm_add_text_source",
            "generate_audio"} /\ OffNotebook =>
        /\ Range(trace) \cap ConfigureSubmitEvents = {}
        /\ (pc = "returned" => result = Failure(op))

\* C12: in add_source.add_text_source, a navigation that ends off a notebook
\* page leads to the failure value with no element resolved or clicked: the
\* resolver is never called and only the release follows.
C12_TextSourceMismatchReturnsEarly ==
    op = "as_add_text_source" /\ OffNotebook =>
        /\ pc \in {"as_text_check_url", "finally_context", "finally_driver", "returned"}
        /\ (Releasing => result = None)
        /\ fRet = "none" /\ fQueried = << >>
        /\ Range(trace) \subseteq {"start_driver", "launch", "goto",
                                   "context_close", "driver_stop"}

C12_Witness ==
    /\ op = "as_add_text_source"
    /\ pageUrl = "notebooklm_other"
    /\ pc = "returned"
    /\ result = None
    /\ "context_close" \in Range(trace)

\* C13: the trigger action runs only after the download listener was set up:
\* every trigger, and so every download event, follows an expect_download in
\* the same run, and the trigger step starts with the listener just opened.
C13_ListenerBeforeTrigger ==
    /\ \A i \in DOMAIN trace :
         trace[i] \in {"download_trigger", "trigger_raised", "download_event"}
            => \E j \in 1..(i - 1) : trace[j] = "expect_download"
    /\ (pc = "dl_trigger" => trace[Len(trace)] = "expect_download")

C13_Witness ==
    /\ pc = "returned"
    /\ "download_event" \in Range(trace)
    /\ "expect_download" \in Range(trace)

\* C14: a saved download is returned under the suggested name when no output
\* name was given and under exactly the output name when one was given, and
\* generate_audio calls the override handler exactly when output was given.
C14_SavedUnderTheRightName ==
    /\ (Range(trace) \cap {"wait_for_download", "download_with_custom_name"} # {}
          => (("download_with_custom_name" \in Range(trace)) <=> args.output)
             /\ (("wait_for_download" \in Range(trace)) <=> ~args.output))
    /\ ("download_saved" \in Range(trace) =>
          /\ Releasing
          /\ IF args.output
               THEN result = "download_dir/custom.mp3"
               ELSE \E k \in DOMAIN trace :
                      /\ trace[k] = "download_event"
                      /\ trace[k + 1] \in SuggestedNames
                      /\ result = SavePath(trace[k + 1]))

C14_Witness ==
    /\ pc = "returned"
    /\ args.output
    /\ "audio.wav" \in Range(trace)
    /\ result = "download_dir/custom.mp3"

\* C15: a trigger that raises, a missing download event and a failed save each
\* make the download call return None (generate_audio reports the failed
\* download and returns None); a path is returned only after a completed save.
C15_DownloadFailureIsReturned ==
    /\ (Range(trace) \cap {"trigger_raised", "no_event", "save_failed"} # {} =>
          /\ Releasing
          /\ result = None
          /\ trace[Len(trace)] \in {"download_failed", "context_close", "driver_stop"}
          /\ "download_failed" \in Range(trace))
    /\ (op = "generate_audio" /\ result \notin {"unset", None}
          => "download_saved" \in Range(trace))

C15_Witness ==
    /\ pc = "returned"
    /\ "save_failed" \in Range(trace)
    /\ "download_failed" \in Range(trace)
    /\ result = None

\* C16: the value returned after a completed generation whose download failed
\* differs from the value returned when the generation itself failed.
C16_DownloadFailureDistinct ==
    op = "generate_audio" /\ pc = "returned" /\ pollExit = "complete"
      /\ "download_failed" \in Range(trace)
        => result # Failure(op)

\* the script-level click of a primary action
SyntheticClicks == {"js_click_generate", "js_click_insert", "js_click_create"}

\* C17: a failed direct click on the primary action is followed by exactly one
\* script-level click of that action.
C17_OneFallbackClick ==
    \A i \in DOMAIN trace :
        trace[i] = "click_failed" =>
            /\ i < Len(trace)
            /\ trace[i + 1] \in SyntheticClicks
            /\ (i + 2 <= Len(trace) => trace[i + 2] \notin SyntheticClicks)

\* C18: an operation that did not find its submit control returns its failure
\* value.
C18_NoSuccessWithoutSubmitControl ==
    "submit_not_found" \in Range(trace) =>
        /\ Releasing
        /\ result = Failure(op)

\* C19: add_source.add_text_source returns its success message only after the
\* text was entered into the textarea.
C19_SuccessNeedsPayload ==
    op = "as_add_text_source" /\ result \notin {"unset", None}
        => "payload_entered" \in Range(trace)

\* the steps that read the result of resolving an optional parameter
OptionalSteps == {"ga_format_done", "ga_length_done", "ga_instructions_done"}

\* C20: after an optional parameter (format, length, instructions) could not
\* be resolved, generate_audio has returned nothing and stands at one of the
\* steps that lead to resolving the Generate button.
C20_UnresolvedOptionGoesOn ==
    op = "generate_audio" /\ fRet \in OptionalSteps /\ found[1] = None /\ pc # fRet
        => /\ result = "unset"
           /\ pc \in {"ga_length", "ga_instructions", "ga_generate"}

C20_Witness ==
    /\ pc = "ga_generate"
    /\ fRet = "ga_instructions_done"
    /\ found = << None, None >>
    /\ result = "unset"

\* C26: add_source.add_text_source enters the content by fill(), and does not
\* call human_type, exactly when the content has more than 500 characters;
\* otherwise it calls human_type and not fill().
C26_FillAboveThreshold ==
    op = "as_add_text_source" /\ Range(trace) \cap {"fill", "human_type"} # {} =>
        /\ (("fill" \in Range(trace)) <=> args.len > 500)
        /\ (("human_type" \in Range(trace)) <=> args.len <= 500)

C26_Witness ==
    /\ op = "as_add_text_source"
    /\ args.len = 500
    /\ "human_type" \in Range(trace)
    /\ pc = "returned"

\* C28: add_source.add_url_source returns its success message only after a
\* click on an Insert button went through or Enter was pressed.
C28_UrlSuccessNeedsSubmit ==
    op = "as_add_url_source" /\ result \notin {"unset", None} =>
        Range(trace) \cap {"click_insert", "enter"} # {}

\* the number of times event e is in the trace
Count(e) == Cardinality({ i \in DOMAIN trace : trace[i] = e })

\* C29: in generate_audio a direct click on the Generate button that raised is
\* followed by one script-level click, then by the submission or, when that
\* click raised too, by the failure value with no polling and no download; the
\* same holds for the click on the audio menu button.
C29_GenerateClickFallback ==
    /\ Count("js_click_generate") = Count("click_failed")
    /\ Count("js_click_menu") = Count("click_menu_failed")
    /\ \A i \in DOMAIN trace :
         /\ trace[i] = "click_failed" =>
              /\ trace[i - 1] = "click_generate"
              /\ trace[i + 1] = "js_click_generate"
              /\ trace[i + 2] \in {"submitted", "screenshot"}
              /\ (trace[i + 2] = "screenshot" =>
                    /\ Releasing /\ result = None /\ pollExit = "none"
                    /\ "submitted" \notin Range(trace)
                    /\ "download_trigger" \notin Range(trace))
         /\ trace[i] = "click_menu_failed" =>
              /\ trace[i - 1] = "click_menu"
              /\ trace[i + 1] = "js_click_menu"
              /\ trace[i + 2] \in {"menu_opened", "screenshot"}
              /\ (trace[i + 2] = "screenshot" =>
                    /\ Releasing /\ result = None
                    /\ "download_trigger" \notin Range(trace))

C29_Witness ==
    /\ pc = "returned"
    /\ "click_failed" \in Range(trace)
    /\ "click_menu_failed" \in Range(trace)
    /\ "download_saved" \in Range(trace)

\* C27: an operation that returns failure because an element or a menu was
\* not found, or because a click raised, has captured a screenshot first.
C27_ScreenshotBeforeFailure ==
    \A i \in DOMAIN trace :
        /\ trace[i] = "not_found" =>
             i < Len(trace) /\ trace[i + 1] = "screenshot"
        /\ (trace[i] = "click_failed" /\ Releasing /\ result = Failure(op)) =>
             "screenshot" \in Range(trace)

\* C30: the polling loop of generate_audio ends as complete on two
\* successive checks that do not find the indicator, whether or not the
\* indicator was ever found after the submission; the run then goes on to the
\* download.
C30_TwoAbsencesComplete ==
    [][(pc = "ga_recheck" /\ seen1 = "no" /\ seen2' = "no") =>
          (pollExit' = "complete" /\ pc' = "ga_poll_done")]_vars

C30_Witness ==
    /\ "poll_complete" \in Range(trace)
    /\ "indicator_seen" \notin Range(trace)
    /\ "download_saved" \in Range(trace)
    /\ pc = "returned"
    /\ result \notin {"unset", None}

\* the steps of an operation, and the events of each
NavigateEvents == {"goto"}

ConfigureEvents == {"configure", "payload_entered", "fill", "human_type"}

SubmitEvents ==
    {"click_generate", "click_failed", "js_click_generate", "submitted",
     "click_insert", "click_submit", "click_create", "enter",
     "submit_not_found", "submit"}

PollEvents == {"indicator_seen", "poll_complete", "poll_timeout"}

ExtractEvents ==
    {"menu_search", "click_menu", "click_menu_failed", "js_click_menu",
     "menu_opened", "wait_for_download", "download_with_custom_name",
     "expect_download", "download_trigger", "trigger_raised", "no_event",
     "download_event", "download_saved", "save_failed", "download_failed"}
    \cup SuggestedNames

\* the step an event belongs to: 1 Navigate .. 5 Extract, 0 for the events of
\* acquiring, releasing and diagnosing
Step(e) ==
    IF e \in NavigateEvents THEN 1
    ELSE IF e \in ConfigureEvents THEN 2
    ELSE IF e \in SubmitEvents THEN 3
    ELSE IF e \in PollEvents THEN 4
    ELSE IF e \in ExtractEvents THEN 5
    ELSE 0

Outcomes(o) ==
    IF o = "generate_audio" THEN {None} \cup { SavePath(n) : n \in SuggestedNames \cup {"custom.mp3"} }
    ELSE IF o \in {"sm_add_url_source", "sm_add_text_source"} THEN {"True", "False"}
    ELSE IF o = "as_add_text_source" THEN {None, "Successfully added text source"}
    ELSE IF o = "as_add_url_source" THEN {None, "Successfully added source"}
    ELSE {None, "dict(name=None)", "dict(name=name)"}

\* C25: every operation returns, and returns one value: the value is set by
\* the time the operation has returned, it is one of the operation's outcomes,
\* and once set it does not change.
C25_TerminatesWithOneOutcome ==
    /\ <>(pc = "returned")
    /\ [](pc = "returned" => result \in Outcomes(op))
    /\ [][result # "unset" => result' = result]_vars

C25_Witness ==
    /\ pc = "returned"
    /\ op = "create_notebook"
    /\ result = "dict(name=name)"
    /\ driverState = "stopped"

\* the invocations whose browser context is live
LiveContexts == { p \in Procs : procs[p].ctx = "live" }

\* C21: of the invocations running on one profile directory at most one has
\* a live context at a time; an invocation whose launch the engine refused
\* gets no context, navigates nowhere, returns the failure value and has
\* called stop on its driver by the time it returned; its steps leave the
\* holder of the profile, and the other invocations, as they were.
C21_OneLiveContextPerProfile ==
    /\ Cardinality(LiveContexts) <= 1
    /\ \A p \in Procs :
         /\ procs[p].ctx = "live" => profile = p
         /\ procs[p].refused =>
              /\ procs[p].context = None /\ procs[p].ctx = "none"
              /\ ~procs[p].navigated
              /\ procs[p].result = None
              /\ procs[p].pc \in {"finally_context", "finally_driver", "returned"}
              /\ procs[p].pc = "returned" =>
                   procs[p].driver \in {"stopped", "stop_failed"}

C21_Witness ==
    \E p, q \in Procs :
        /\ procs[p].refused /\ procs[p].pc = "returned" /\ procs[p].driver = "stopped"
        /\ ~procs[q].refused /\ procs[q].pc = "returned" /\ procs[q].result = "path"

\* C22: injecting never changes state.json, so any two acquisitions, one
\* after the other on the same profile, hand the same cookies to
\* add_cookies, and get the same cookies when add_cookies returns.
C22_SecondAcquireInjectsTheSame ==
    \A p, q \in Procs :
        (procs[p].injected /\ procs[q].injected) =>
            /\ procs[p].handed = procs[q].handed
            /\ procs[p].handed = CookiesToInject(stateFile)
            /\ procs[p].jar \in {{}, procs[q].handed}

C22_Witness ==
    \E p, q \in Procs :
        /\ p # q
        /\ procs[p].pc = "returned" /\ procs[p].ctx = "closed"
        /\ procs[q].ctx = "live" /\ procs[q].injected
        /\ procs[p].jar = Cookies /\ procs[q].jar = Cookies

C31_RaisedQueriesCountAsAbsent ==
    /\ [][(pc = "ga_check" /\ raised1') =>
            (pc' = "ga_recheck" /\ ~generating' /\ result' = "unset")]_vars
    /\ [][(pc = "ga_recheck" /\ raised2') =>
            (pc' = "ga_poll_done" /\ pollExit' = "complete" /\ result' = "unset")]_vars

C31_Witness ==
    /\ pc = "ga_poll_done"
    /\ raised1 /\ raised2
    /\ pollExit = "complete"
    /\ "indicator_seen" \notin Range(trace)

\* C32: the budget of generate_audio's polling loop is tested at the loop
\* head only: the loop ends in one way, complete or timeout, and stays so;
\* timeout is set only by the loop head, with the elapsed time at or above the
\* budget; a re-check that finds no indicator ends the loop as complete even
\* when the budget has passed meanwhile.
C32_BudgetTestedAtLoopHead ==
    /\ [][pollExit # "none" => pollExit' = pollExit]_vars
    /\ [][(pollExit = "none" /\ pollExit' = "timeout") =>
            (pc = "ga_poll_head" /\ clock >= generation_timeout)]_vars
    /\ [][(pc = "ga_recheck" /\ ~still_generating' /\ clock' >= generation_timeout) =>
            (pollExit' = "complete" /\ pc' = "ga_poll_done")]_vars
    /\ [](pc = "ga_poll_done" => pollExit = "complete")

C32_Witness ==
    /\ pc = "ga_poll_done"
    /\ pollExit = "complete"
    /\ clock > generation_timeout

\* C33: in the release the context is closed before the driver is stopped,
\* the driver is stopped also when closing the context raised, and neither
\* cleanup call, raising or not, changes the value the operation returns.
C33_ReleaseOrderAndOutcome ==
    /\ [](\A i, j \in DOMAIN trace :
            (trace[i] = "context_close" /\ trace[j] = "driver_stop") => i < j)
    /\ []((pc = "returned" /\ ctxState = "close_failed") =>
            ("driver_stop" \in Range(trace) /\ driverState \in {"stopped", "stop_failed"}))
    /\ [][(pc \in {"finally_context", "finally_driver"}) =>
            (result' = result /\ result # "unset")]_vars

C33_Witness ==
    /\ pc = "returned"
    /\ ctxState = "close_failed"
    /\ driverState = "stop_failed"
    /\ result = "dict(name=name)"

\* C34: a snapshot that is missing, unreadable or without cookies, or an
\* add_cookies call that raises, does not fail the acquisition: the launched
\* context is returned with no cookie in it, and the invocation goes on to
\* navigate with no outcome set.
C34_InjectionFailureIsNotFatal ==
    /\ [](\A p \in Procs :
            (procs[p].injected /\ (stateFile.kind # "readable" \/ stateFile.cookies = {}
                                     \/ procs[p].jar # procs[p].handed)) =>
                (procs[p].context = "ctx" /\ procs[p].jar = {} /\ procs[p].ctx # "none"))
    /\ [][\A p \in Procs :
            (procs[p].pc = "inject" /\ procs'[p].pc # "inject") =>
                (procs'[p].pc = "navigate" /\ procs'[p].context = "ctx"
                   /\ procs'[p].result = "unset")]_vars

C34_Witness ==
    \E p \in Procs :
        /\ stateFile.kind = "unreadable"
        /\ procs[p].injected /\ procs[p].jar = {}
        /\ procs[p].navigated
        /\ procs[p].pc = "returned" /\ procs[p].result = "path"

\* nothing of the browser was touched: no driver, no context, no event
NothingAcquired ==
    /\ playwright = None /\ context = None
    /\ driverState = "none" /\ ctxState = "none"
    /\ trace = << >>

\* C35: add_source.add_text_source and add_source.add_url_source called with
\* an empty or whitespace-only payload, and source_manager.add_text_source
\* called with no content (none given, or an empty or unreadable file), return
\* the failure value without starting the driver or launching a context.
C35_EmptyPayloadRejectedFirst ==
    LET rejected ==
          \/ /\ op \in {"as_add_text_source", "as_add_url_source"}
             /\ (args.len = 0 \/ args.blank)
          \/ /\ op = "sm_add_text_source"
             /\ args.content \in {"none", "empty"}
             /\ args.file \in {"none", "unreadable", "empty"}
    IN  rejected =>
          /\ pc \in {"entry", "returned"}
          /\ (pc = "returned" => result = Failure(op))
          /\ NothingAcquired

C35_Witness ==
    /\ authed
    /\ op = "as_add_url_source"
    /\ args.len = 1 /\ args.blank
    /\ pc = "returned"
    /\ result = None

\* C36: create_notebook returns a dictionary only after the Create click and
\* the wait that found the page on a notebook URL; a rename that found no
\* title element or raised leaves the result a dictionary; the dictionary's
\* name is the requested one (None when none was asked for) however the
\* rename went.
C36_CreateSucceedsOnNotebookUrl ==
    op = "create_notebook" =>
        /\ result \notin {"unset", None} =>
             /\ pageUrl = "notebook"
             /\ \E i \in DOMAIN trace :
                  /\ trace[i] = "url_reached"
                  /\ \E k \in 1..(i - 1) : trace[k] = "click_create"
             /\ "url_timeout" \notin Range(trace)
             /\ result = IF args.name THEN "dict(name=name)" ELSE "dict(name=None)"
        /\ Range(trace) \cap {"renamed", "no_title_element", "raised"} # {} =>
             result = "dict(name=name)"
        /\ "url_timeout" \in Range(trace) => result = None

C36_Witness ==
    /\ op = "create_notebook"
    /\ pc = "returned"
    /\ "raised" \in Range(trace)
    /\ result = "dict(name=name)"

====
